---- MODULE Spec2Model ----
(***************************************************************************)
(* Model of latex_templates (src/latex_templates/__init__.py): template    *)
(* discovery on a search path, configuration merge, manifest entry         *)
(* normalisation, default-config generation and PDF compilation.           *)
(*                                                                         *)
(* Each group of operations has its own specification over its own         *)
(* variables; the variables of the other groups are held at their idle     *)
(* values.                                                                 *)
(***************************************************************************)
EXTENDS Integers, Sequences, FiniteSets, TLC

VARIABLES
    tree,       \* the template directories on disk: base dir -> listing
    fcall,      \* the discovery call made (find / find_all) and its arguments
    fresult     \* what the discovery call returned or raised

VARIABLES
    defaultConf,    \* the mapping stored in the template's default-conf.yaml
    userConf,       \* the mapping the caller passes as config
    merged          \* what __config_with_defaults returned, once called

VARIABLES
    entry,      \* one item of the parsed manifest: a string or a mapping
    parsed      \* what GeneratedFile.from_yaml(entry) returned or raised

VARIABLES
    cwdFiles,   \* the files where the configuration is written: name -> content
    gcCall      \* the generate_config call made: its argument, the files
                \* before it, and the file it wrote

VARIABLES
    pc,         \* where compile_pdf / generate_project stands
    cargs,      \* the call's arguments and the output files before it
    manifest,   \* the rendered manifest: what get_generated_files returns
    tmpDir,     \* the TemporaryDirectory of compile_pdf: none, exists, removed
    latexmk,    \* the external compiler: times invoked, exit status, pdf built
    outFiles,   \* the files under the output directory: path -> content
    outDirs,    \* the directories that exist under the output location
    cresult     \* what the call returned or raised

VARIABLES
    gpc,        \* where generate stands
    genv,       \* what the run will meet: whether default-conf.yaml loads and
                \* whether contents.yaml renders and parses
    gmanifest,  \* the entries the rendered manifest holds, with each source's fate
    gfiles,     \* the files of the target directory: target -> content
    gdir,       \* whether the target directory exists
    gidx,       \* the manifest entry the loop of generate is at
    gcall,      \* the generate call made and the target files before it
    gout        \* how generate ended

findVars == <<tree, fcall, fresult>>
mergeVars == <<defaultConf, userConf, merged>>
yamlVars == <<entry, parsed>>
genconfVars == <<cwdFiles, gcCall>>
compileVars == <<pc, cargs, manifest, tmpDir, latexmk, outFiles, outDirs, cresult>>
generateVars == <<gpc, genv, gmanifest, gfiles, gdir, gidx, gcall, gout>>

vars == <<findVars, mergeVars, yamlVars, genconfVars, compileVars, generateVars>>

otherThanFind == <<mergeVars, yamlVars, genconfVars, compileVars, generateVars>>
otherThanMerge == <<findVars, yamlVars, genconfVars, compileVars, generateVars>>
otherThanYaml == <<findVars, mergeVars, genconfVars, compileVars, generateVars>>
otherThanGenconf == <<findVars, mergeVars, yamlVars, compileVars, generateVars>>
otherThanCompile == <<findVars, mergeVars, yamlVars, genconfVars, generateVars>>
otherThanGenerate == <<findVars, mergeVars, yamlVars, genconfVars, compileVars>>

(***************************************************************************)
(* Bounds                                                                  *)
(***************************************************************************)
MaxPath == 3        \* longest template search path given to find / find_all
MaxScalar == 2      \* scalar configuration values are 1..MaxScalar
MaxEntryLen == 4    \* longest bare-string manifest entry, in characters
MaxTaken == 2       \* highest numeric suffix among the files that already exist
MaxManifest == 2    \* longest rendered manifest given to compilation
MaxEntries == 3     \* longest rendered manifest given to generate

(***************************************************************************)
(* Generic helpers                                                         *)
(***************************************************************************)
None == "None"

\* An optional list argument: omitted (Python's None) or given.
Omitted == [given |-> FALSE, v |-> <<>>]
Given(x) == [given |-> TRUE, v |-> x]

SeqsUpTo(S, n) == UNION {[1..k -> S] : k \in 0..n}

Range(s) == {s[i] : i \in 1..Len(s)}

Perms(S) == {p \in [1..Cardinality(S) -> S] : Range(p) = S}

(***************************************************************************)
(* The template file system                                                *)
(***************************************************************************)
BaseDirs == {"d1", "d2", "d3"}

TemplateNames == {"report", "slides"}

\* What may sit at base/name: nothing, a directory holding only
\* default-conf.yaml, or a directory holding both marker files.
NoEntry  == [is_dir |-> FALSE, has_conf |-> FALSE, has_contents |-> FALSE]
ConfOnly == [is_dir |-> TRUE,  has_conf |-> TRUE,  has_contents |-> FALSE]
Template == [is_dir |-> TRUE,  has_conf |-> TRUE,  has_contents |-> TRUE]

EntryKinds == {NoEntry, ConfOnly, Template}

MissingDir == [is_dir |-> FALSE, sub |-> [n \in TemplateNames |-> NoEntry]]

DirListings ==
    {MissingDir} \cup {[is_dir |-> TRUE, sub |-> s] : s \in [TemplateNames -> EntryKinds]}

\* search_paths(): the environment's template and library directories.
SearchPathsTemplates == <<"d3">>
SearchPathsLibraries == <<"lib3">>

\* Path(dir) / name on the current disk.
Lookup(dir, name) == tree[dir].sub[name]

\* The variant that accepts any directory of the right name.
IsDirOnly(e) == e.is_dir

\* ProjectTemplate.is_template
is_template(e) == e.is_dir /\ e.has_conf /\ e.has_contents

\* `x or y` on an optional list: None and the empty list are both falsy.
OrElse(x, y) == IF ~x.given \/ x.v = <<>> THEN y ELSE x.v

\* find, lines 134-137: the list used for argument `arg`, `other` being the
\* other optional argument and `dflt` what search_paths() gives for `arg`.
Effective(arg, other, dflt) ==
    IF ~arg.given \/ ~other.given THEN OrElse(arg, dflt) ELSE arg.v

NotFound(name) == [kind |-> "not_found", name |-> name, dir |-> None, lib |-> <<>>, names |-> <<>>]

\* find, lines 139-150: the loop over the path, from position i on.
RECURSIVE FindFrom(_, _, _, _)
FindFrom(tp, i, name, lp) ==
    IF i > Len(tp) THEN NotFound(name)
    ELSE IF is_template(Lookup(tp[i], name))
         THEN [kind |-> "template", name |-> name, dir |-> tp[i], lib |-> lp,
               names |-> <<>>]
         ELSE FindFrom(tp, i + 1, name, lp)

\* The names find_all yields for one path entry, in every order iterdir() may give.
YieldsOf(dir) ==
    IF ~tree[dir].is_dir THEN {<<>>}
    ELSE Perms({n \in TemplateNames : is_template(Lookup(dir, n))})

\* The variant that lists every template name once.
RECURSIVE FindAllDedup(_, _)
FindAllDedup(tp, i) ==
    IF i > Len(tp) THEN {<<>>}
    ELSE {h \o SelectSeq(t, LAMBDA n : n \notin Range(h)) :
             h \in YieldsOf(tp[i]), t \in FindAllDedup(tp, i + 1)}

\* find_all, lines 159-167, from position i on: every sequence it may yield.
RECURSIVE FindAllFrom(_, _)
FindAllFrom(tp, i) ==
    IF i > Len(tp) THEN {<<>>}
    ELSE {h \o t : h \in YieldsOf(tp[i]), t \in FindAllFrom(tp, i + 1)}

GivenPaths == SeqsUpTo(BaseDirs, MaxPath)

GivenLibPaths == {Omitted, Given(<<"lib1">>)}

NoCall == [op |-> "none", name |-> None, tp |-> Omitted, lp |-> Omitted]

NoResult == [kind |-> "none", name |-> None, dir |-> None, lib |-> <<>>, names |-> <<>>]

EmptyTree == [d \in BaseDirs |-> MissingDir]

IdleFind == tree = EmptyTree /\ fcall = NoCall /\ fresult = NoResult

(***************************************************************************)
(* Configuration mappings and their merge                                  *)
(***************************************************************************)
ConfKeys == {"a", "b"}
InnerKeys == {"x", "y"}

\* Every mapping from some of the keys K to values in V (a Python dict).
Maps(K, V) == UNION {[D -> V] : D \in SUBSET K}

EmptyMap == [k \in {} |-> 0]

Scalar(n) == [is_map |-> FALSE, int |-> n, map |-> EmptyMap]
Nested(m) == [is_map |-> TRUE, int |-> 0, map |-> m]

ConfValues ==
    {Scalar(n) : n \in 1..MaxScalar} \cup {Nested(m) : m \in Maps(InnerKeys, 1..MaxScalar)}

Configs == Maps(ConfKeys, ConfValues)

\* d[k] = v on a dict
DictSet(d, k, v) == [x \in DOMAIN d \cup {k} |-> IF x = k THEN v ELSE d[x]]

\* `**src` inside a dict display: every item of src is stored into acc, in turn.
RECURSIVE Unpack(_, _, _)
Unpack(acc, src, todo) ==
    IF todo = {} THEN acc
    ELSE LET k == CHOOSE x \in todo : TRUE
         IN Unpack(DictSet(acc, k, src[k]), src, todo \ {k})

\* The variant that merges nested mappings key by key.
DeepMerge(dflt, config) ==
    [k \in DOMAIN dflt \cup DOMAIN config |->
        IF k \notin DOMAIN config THEN dflt[k]
        ELSE IF k \notin DOMAIN dflt THEN config[k]
        ELSE IF dflt[k].is_map /\ config[k].is_map
             THEN Nested(Unpack(Unpack(EmptyMap, dflt[k].map, DOMAIN dflt[k].map),
                                config[k].map, DOMAIN config[k].map))
             ELSE config[k]]

\* __config_with_defaults: {**self.load_default_conf(), **config}
config_with_defaults(dflt, config) ==
    Unpack(Unpack(EmptyMap, dflt, DOMAIN dflt), config, DOMAIN config)

NotMerged == [done |-> FALSE, v |-> EmptyMap]

IdleMerge == defaultConf = EmptyMap /\ userConf = EmptyMap /\ merged = NotMerged

(***************************************************************************)
(* Manifest entries: GeneratedFile.from_yaml                               *)
(***************************************************************************)
\* Strings are sequences of characters.
Chars == {"r", "a", "w", "m", "i", "n", ".", "/"}

Strings == SeqsUpTo(Chars, MaxEntryLen)

RAW == <<"r", "a", "w">>
MAIN == <<"m", "a", "i", "n">>

\* `needle in hay` on two strings: substring test.
StrContains(hay, needle) ==
    \E i \in 0..(Len(hay) - Len(needle)) : SubSeq(hay, i + 1, i + Len(needle)) = needle

\* s.split("/")
RECURSIVE SplitSlash(_, _, _)
SplitSlash(s, i, cur) ==
    IF i > Len(s) THEN <<cur>>
    ELSE IF s[i] = "/" THEN <<cur>> \o SplitSlash(s, i + 1, <<>>)
    ELSE SplitSlash(s, i + 1, Append(cur, s[i]))

RECURSIVE LeadingSlashes(_)
LeadingSlashes(s) ==
    IF s # <<>> /\ Head(s) = "/" THEN 1 + LeadingSlashes(Tail(s)) ELSE 0

\* pathlib.Path(s) on POSIX: the root ("", "/" or, for exactly two leading
\* slashes, "//") and the components, with empty and "." components dropped.
PathOf(s) ==
    [root  |-> IF LeadingSlashes(s) = 2 THEN "//"
               ELSE IF LeadingSlashes(s) >= 1 THEN "/" ELSE "",
     parts |-> SelectSeq(SplitSlash(s, 1, <<>>), LAMBDA c : c # <<>> /\ c # <<".">>)]

NoPath == PathOf(<<>>)

\* A mapping entry: src, tgt, raw and main, each present or not.
MapSrcs == {<<"a">>, <<"m", "a", "i", "n">>}
MapTgts == {<<"w">>}

MapEntries ==
    [has_src : BOOLEAN, src : MapSrcs, has_tgt : BOOLEAN, tgt : MapTgts,
     has_raw : BOOLEAN, raw : BOOLEAN, has_main : BOOLEAN, main : BOOLEAN]

NoMap == [has_src |-> FALSE, src |-> <<"a">>, has_tgt |-> FALSE, tgt |-> <<"w">>,
          has_raw |-> FALSE, raw |-> FALSE, has_main |-> FALSE, main |-> FALSE]

\* Unused fields are held at a fixed value.
NormalMapEntries ==
    {e \in MapEntries :
        /\ (~e.has_src => e.src = NoMap.src)
        /\ (~e.has_raw => e.raw = FALSE)
        /\ (~e.has_main => e.main = FALSE)}

StrEntry(s) == [is_str |-> TRUE, str |-> s, map |-> NoMap]
MapEntry(m) == [is_str |-> FALSE, str |-> <<>>, map |-> m]

Entries == {StrEntry(s) : s \in Strings} \cup {MapEntry(m) : m \in NormalMapEntries}

Raised(err) ==
    [ok |-> FALSE, error |-> err, src |-> NoPath, tgt |-> NoPath,
     is_raw |-> FALSE, is_main |-> FALSE]

GeneratedFile(src, tgt, is_raw, is_main) ==
    [ok |-> TRUE, error |-> None, src |-> src, tgt |-> tgt,
     is_raw |-> is_raw, is_main |-> is_main]

\* `key in entry`: substring test on a string, key membership on a mapping.
KeyIn(key, e) ==
    IF e.is_str THEN StrContains(e.str, key)
    ELSE IF key = RAW THEN e.map.has_raw ELSE e.map.has_main

\* entry[key] for key "raw" / "main": a string cannot be indexed by a string.
Subscript(e, key) ==
    IF e.is_str THEN [ok |-> FALSE, v |-> FALSE]
    ELSE [ok |-> TRUE, v |-> IF key = RAW THEN e.map.raw ELSE e.map.main]

\* GeneratedFile.from_yaml, lines 38-47.
from_yaml(e) ==
    IF ~e.is_str /\ ~e.map.has_src THEN Raised("KeyError")
    ELSE
      LET src == IF e.is_str THEN e.str ELSE e.map.src
          tgt == IF e.is_str THEN e.str
                 ELSE IF e.map.has_tgt THEN e.map.tgt ELSE src
      IN IF KeyIn(RAW, e) /\ ~Subscript(e, RAW).ok THEN Raised("TypeError")
         ELSE IF KeyIn(MAIN, e) /\ ~Subscript(e, MAIN).ok THEN Raised("TypeError")
         ELSE GeneratedFile(PathOf(src), PathOf(tgt),
                            KeyIn(RAW, e) /\ Subscript(e, RAW).v,
                            KeyIn(MAIN, e) /\ Subscript(e, MAIN).v)

NotParsed == Raised("not called")

IdleYaml == entry = StrEntry(<<>>) /\ parsed = NotParsed

(***************************************************************************)
(* generate_config                                                         *)
(***************************************************************************)
\* A file name as pathlib splits it: name = stem + suffix.
FileName(stem, suffix) == [stem |-> stem, suffix |-> suffix]

NameStr(f) == f.stem \o f.suffix

\* The output_file arguments tried (the CLI default is ./config.yaml).
ConfigTargets == {FileName("config", ".yaml"), FileName("config", "")}

\* "{}".format(n)
Fmt(n) == ToString(n)

\* The names that may already be taken.
TakenNames ==
    {NameStr(f) : f \in ConfigTargets}
        \cup {NameStr(f) \o "." \o Fmt(k) : f \in ConfigTargets, k \in 1..MaxTaken}

OldContent == "old"
DefaultConfContent == "default-conf.yaml"

\* Path.with_suffix(suffix): the name with its last suffix replaced.
with_suffix(f, suffix) == f.stem \o suffix

\* The variant that drops the file's own suffix.
NumberOnly(f, n) == with_suffix(f, "." \o Fmt(n))

\* generate_config, line 348: config_file.with_suffix(config_file.suffix + ".{}".format(suffix))
Numbered(f, n) == with_suffix(f, f.suffix \o "." \o Fmt(n))

\* generate_config, lines 344-348: the loop, entered with new_file = name.
RECURSIVE NewFile(_, _, _, _)
NewFile(files, f, name, suffix) ==
    IF name \notin DOMAIN files THEN name
    ELSE NewFile(files, f, Numbered(f, suffix + 1), suffix + 1)

\* shutil.copyfile(src, dst) into a mapping name -> content
CopyTo(files, name, content) ==
    [n \in DOMAIN files \cup {name} |-> IF n = name THEN content ELSE files[n]]

NoGcCall == [called |-> FALSE, f |-> FileName("", ""), before |-> EmptyMap, wrote |-> ""]

IdleGenconf == cwdFiles = EmptyMap /\ gcCall = NoGcCall

(***************************************************************************)
(* Compilation: compile_pdf and generate_project                           *)
(***************************************************************************)
\* A file path: the directories leading to it and its name as pathlib
\* splits it (name = stem + suffix).
FilePath(dir, stem, suffix) == [dir |-> dir, stem |-> stem, suffix |-> suffix]

NoFile == FilePath(<<>>, "", "")

\* The path as the file system sees it.
Key(p) == [dir |-> p.dir, name |-> p.stem \o p.suffix]

\* base / rel, base naming a directory
Join(base, rel) == FilePath(Append(base.dir, base.stem \o base.suffix) \o rel.dir,
                            rel.stem, rel.suffix)

\* p.with_suffix(suffix)
PathWithSuffix(p, suffix) == FilePath(p.dir, p.stem, suffix)

\* The manifest entries compilation reads: tgt and is_main.
MainTex    == [tgt |-> FilePath(<<>>, "main", ".tex"), is_main |-> TRUE]
SubMainTex == [tgt |-> FilePath(<<"src">>, "main", ".tex"), is_main |-> TRUE]
NotesTex   == [tgt |-> FilePath(<<>>, "notes", ".tex"), is_main |-> FALSE]

ManifestEntries == {MainTex, SubMainTex, NotesTex}

Manifests == SeqsUpTo(ManifestEntries, MaxManifest)

NoMain == [found |-> FALSE, entry |-> NotesTex]

\* The variant that takes the first entry, marked main or not.
FirstEntry(m, i) ==
    IF i > Len(m) THEN NoMain ELSE [found |-> TRUE, entry |-> m[i]]

\* get_main_latex_file, lines 328-331, from entry i on.
RECURSIVE get_main_latex_file(_, _)
get_main_latex_file(m, i) ==
    IF i > Len(m) THEN NoMain
    ELSE IF m[i].is_main THEN [found |-> TRUE, entry |-> m[i]]
    ELSE get_main_latex_file(m, i + 1)

\* The output location: directory out, and the output_path arguments tried.
OutDir == FilePath(<<>>, "out", "")
ReportPdf == FilePath(<<"out">>, "report", ".pdf")

OutputPaths == {ReportPdf, OutDir}

NoOutput == [given |-> FALSE, path |-> NoFile]

OutputArgs == {NoOutput} \cup {[given |-> TRUE, path |-> p] : p \in OutputPaths}

\* f"{output_path.stem} ({i}).pdf" beside output_path
Suffixed(p, i) == FilePath(p.dir, p.stem \o " (" \o ToString(i) \o ")", ".pdf")

\* The files that may exist under the output location before the call.
TakenOutputs ==
    {Key(ReportPdf), Key(FilePath(<<"out">>, "main", ".pdf"))}
        \cup {Key(Suffixed(ReportPdf, k)) : k \in 1..MaxTaken}

ArtifactContent == "pdf"

\* The directories that may exist: out always, out/src or not.
OutDirSets == {{<<"out">>}, {<<"out">>, <<"out", "src">>}}

\* Path.is_dir()
IsDir(p) == Key(p).dir \o <<Key(p).name>> \in outDirs

\* Path.exists()
Exists(files, p) == Key(p) \in DOMAIN files \/ IsDir(p)

\* The variant that tests the requested path once instead of each candidate.
OutputFileTestsPathOnly(files, output_path, output_file, i, overwrite) ==
    IF Exists(files, output_path) /\ ~overwrite THEN Suffixed(output_path, 1)
    ELSE output_path

\* __compile_pdf, lines 311-314: the loop, entered with output_file and i.
RECURSIVE OutputFile(_, _, _, _, _)
OutputFile(files, output_path, output_file, i, overwrite) ==
    IF Exists(files, output_file) /\ ~overwrite
    THEN OutputFile(files, output_path, Suffixed(output_path, i), i + 1, overwrite)
    ELSE output_file

BuildDir == FilePath(<<>>, "build", "")
TempDir == FilePath(<<>>, "tmp", "")
ProjectDir == FilePath(<<>>, "project", "")

NoCompileCall ==
    [fn |-> "none", output |-> NoOutput, build_dir_given |-> FALSE, build_dir |-> NoFile,
     overwrite |-> FALSE, should_compile |-> FALSE, before |-> EmptyMap]

NoOutcome == [kind |-> "none", error |-> None, path |-> NoFile]
Returned(p) == [kind |-> "returned", error |-> None, path |-> p]
ReturnedNone == [kind |-> "returned_none", error |-> None, path |-> NoFile]
Raises(err) == [kind |-> "raised", error |-> err, path |-> NoFile]

LatexmkIdle == [calls |-> 0, status |-> 0, pdf |-> FALSE]

\* The variant that removes the directory on a normal return only.
CleanupOnReturnOnly(tmp, res) ==
    IF tmp = "exists" /\ res.kind = "returned" THEN "removed" ELSE tmp

\* compile_pdf, line 275: leaving the `with TemporaryDirectory()` block, by
\* return or by exception.
TemporaryDirectoryExit(tmp, res) == IF tmp = "exists" THEN "removed" ELSE tmp

IdleCompile ==
    /\ pc = "idle"
    /\ cargs = NoCompileCall
    /\ manifest = <<>>
    /\ tmpDir = "none"
    /\ latexmk = LatexmkIdle
    /\ outFiles = EmptyMap
    /\ outDirs = {}
    /\ cresult = NoOutcome

(***************************************************************************)
(* Generation: ProjectTemplate.generate                                    *)
(***************************************************************************)
\* The targets the manifest may name, relative to the target directory.
GenTargets == {"a.tex", "b.tex"}

\* What processing an entry meets. A raw entry is copied: its source is
\* there and is copied whole ("ok"), is not there ("missing_source":
\* copyfile raises before the target is opened), or the copy breaks off once
\* the target has been opened for writing ("io_error").
\* A template entry is rendered: the template loads and renders
\* ("ok"), cannot be loaded ("missing_source": get_template raises before
\* the target is opened), or raises while it is streamed into the target,
\* which open(out_path, "w") has truncated by then ("render_error").
GenEntryKinds ==
    {[is_raw |-> TRUE,  fate |-> "ok"],
     [is_raw |-> TRUE,  fate |-> "missing_source"],
     [is_raw |-> TRUE,  fate |-> "io_error"],
     [is_raw |-> FALSE, fate |-> "ok"],
     [is_raw |-> FALSE, fate |-> "missing_source"],
     [is_raw |-> FALSE, fate |-> "render_error"]}

GenEntries == {[tgt |-> t, is_raw |-> k.is_raw, fate |-> k.fate] :
                  t \in GenTargets, k \in GenEntryKinds}

GenManifests == SeqsUpTo(GenEntries, MaxEntries)

\* What the run meets before the loop: default-conf.yaml loads or not;
\* contents.yaml renders and parses into entries or not.
GenEnvs ==
    {[defaults_ok |-> TRUE,  manifest_ok |-> TRUE],
     [defaults_ok |-> TRUE,  manifest_ok |-> FALSE],
     [defaults_ok |-> FALSE, manifest_ok |-> TRUE]}

\* A file's content: who wrote it (0: it was there before the call; i: the
\* i-th manifest entry) and whether it was written in full.
OldFile == [writer |-> 0, full |-> TRUE]
FullBy(i) == [writer |-> i, full |-> TRUE]
PartialBy(i) == [writer |-> i, full |-> FALSE]

\* The variant that carries on without defaults when the file does not load.
DefaultsOrEmpty(env) == TRUE

\* load_default_conf, lines 206-208: whether the file opens and parses.
load_default_conf(env) == env.defaults_ok

\* get_generated_files, lines 322-324: defaults, render, parse, from_yaml of
\* every entry; the whole list or an exception.
get_generated_files(env) == load_default_conf(env) /\ env.manifest_ok

\* The variant that puts the target directory back as it was when an entry fails.
WriteOrRollBack(files, e, i) ==
    IF e.fate = "ok" THEN CopyTo(files, e.tgt, FullBy(i)) ELSE gcall.before

\* generate, lines 223-230: what processing entry e, the i-th, leaves in the
\* target directory.
WriteEntry(files, e, i) ==
    IF e.fate = "ok" THEN CopyTo(files, e.tgt, FullBy(i))
    ELSE IF e.fate \in {"io_error", "render_error"}
         THEN CopyTo(files, e.tgt, PartialBy(i))
    ELSE files

NoGenCall == [called |-> FALSE, before |-> EmptyMap]

GenNone == [kind |-> "none", error |-> None, at |-> 0]
GenReturned == [kind |-> "returned", error |-> None, at |-> 0]
GenRaised(err, i) == [kind |-> "raised", error |-> err, at |-> i]

IdleGenerate ==
    /\ gpc = "idle"
    /\ genv = [defaults_ok |-> TRUE, manifest_ok |-> TRUE]
    /\ gmanifest = <<>>
    /\ gfiles = EmptyMap
    /\ gdir = FALSE
    /\ gidx = 0
    /\ gcall = NoGenCall
    /\ gout = GenNone

(***************************************************************************)
(* Specifications: one per group of operations                             *)
(***************************************************************************)
\* Every group of variables but g's is at its idle value.
IdleExcept(g) ==
    /\ (g # "find" => IdleFind)
    /\ (g # "merge" => IdleMerge)
    /\ (g # "yaml" => IdleYaml)
    /\ (g # "genconf" => IdleGenconf)
    /\ (g # "compile" => IdleCompile)
    /\ (g # "generate" => IdleGenerate)

(***************************************************************************)
(* Configuration merge: specification                                      *)
(***************************************************************************)
InitMerge ==
    /\ defaultConf \in Configs
    /\ userConf \in Configs
    /\ merged = NotMerged
    /\ IdleExcept("merge")

\* One call of __config_with_defaults(config) on the template.
ConfigWithDefaults ==
    /\ ~merged.done
    /\ merged' = [done |-> TRUE, v |-> config_with_defaults(defaultConf, userConf)]
    /\ UNCHANGED <<defaultConf, userConf, otherThanMerge>>

NextMerge == ConfigWithDefaults

SpecMerge == InitMerge /\ [][NextMerge]_vars

(***************************************************************************)
(* Discovery: specification                                                *)
(***************************************************************************)
InitFind ==
    /\ tree \in [BaseDirs -> DirListings]
    /\ fcall = NoCall
    /\ fresult = NoResult
    /\ IdleExcept("find")

\* ProjectTemplate.find(name, template_path, lib_path)
Find ==
    /\ fcall.op = "none"
    /\ \E name \in TemplateNames,
          tp \in {Given(p) : p \in GivenPaths} \cup {Omitted},
          lp \in GivenLibPaths :
         /\ fcall' = [op |-> "find", name |-> name, tp |-> tp, lp |-> lp]
         /\ fresult' = FindFrom(Effective(tp, lp, SearchPathsTemplates), 1, name,
                                Effective(lp, tp, SearchPathsLibraries))
    /\ UNCHANGED <<tree, otherThanFind>>

\* list(ProjectTemplate.find_all(template_path))
FindAll ==
    /\ fcall.op = "none"
    /\ \E tp \in GivenPaths :
         /\ fcall' = [op |-> "find_all", name |-> None, tp |-> Given(tp), lp |-> Omitted]
         /\ \E ys \in FindAllFrom(tp, 1) :
              fresult' = [NoResult EXCEPT !.kind = "names", !.names = ys]
    /\ UNCHANGED <<tree, otherThanFind>>

NextFind == Find \/ FindAll

SpecFind == InitFind /\ [][NextFind]_vars

(***************************************************************************)
(* Manifest entries: specification                                         *)
(***************************************************************************)
InitYaml ==
    /\ entry \in Entries
    /\ parsed = NotParsed
    /\ IdleExcept("yaml")

\* GeneratedFile.from_yaml(entry)
FromYaml ==
    /\ parsed = NotParsed
    /\ parsed' = from_yaml(entry)
    /\ UNCHANGED <<entry, otherThanYaml>>

NextYaml == FromYaml

SpecYaml == InitYaml /\ [][NextYaml]_vars

(***************************************************************************)
(* generate_config: specification                                          *)
(***************************************************************************)
InitGenconf ==
    /\ cwdFiles \in {[n \in T |-> OldContent] : T \in SUBSET TakenNames}
    /\ gcCall = NoGcCall
    /\ IdleExcept("genconf")

\* generate_config(template, output_file)
GenerateConfig ==
    /\ ~gcCall.called
    /\ \E f \in ConfigTargets :
         LET new_file == NewFile(cwdFiles, f, NameStr(f), 0)
         IN /\ cwdFiles' = CopyTo(cwdFiles, new_file, DefaultConfContent)
            /\ gcCall' = [called |-> TRUE, f |-> f, before |-> cwdFiles, wrote |-> new_file]
    /\ UNCHANGED otherThanGenconf

NextGenconf == GenerateConfig

SpecGenconf == InitGenconf /\ [][NextGenconf]_vars

(***************************************************************************)
(* Compilation: specification                                              *)
(***************************************************************************)
InitCompile ==
    /\ pc = "idle"
    /\ cargs = NoCompileCall
    /\ manifest \in Manifests
    /\ tmpDir = "none"
    /\ latexmk = LatexmkIdle
    /\ outDirs \in OutDirSets
    /\ outFiles \in {[k \in T |-> OldContent] : T \in SUBSET TakenOutputs}
    /\ cresult = NoOutcome
    /\ IdleExcept("compile")

\* compile_pdf(config, output_path=, build_dir=, overwrite=), lines 273-282:
\* entering, with a fresh temporary directory when build_dir is omitted.
CallCompilePdf ==
    /\ pc = "idle"
    /\ \E out \in OutputArgs, given \in BOOLEAN, ow \in BOOLEAN :
         /\ cargs' = [fn |-> "compile_pdf", output |-> out, build_dir_given |-> given,
                      build_dir |-> IF given THEN BuildDir ELSE TempDir,
                      overwrite |-> ow, should_compile |-> TRUE, before |-> outFiles]
         /\ tmpDir' = IF given THEN "none" ELSE "exists"
    /\ pc' = "generate"
    /\ UNCHANGED <<manifest, latexmk, outFiles, outDirs, cresult, otherThanCompile>>

\* generate_project(template, config, output_dir, should_compile, verbose)
CallGenerateProject ==
    /\ pc = "idle"
    /\ \E sc \in BOOLEAN :
         cargs' = [fn |-> "generate_project", output |-> NoOutput, build_dir_given |-> TRUE,
                   build_dir |-> ProjectDir, overwrite |-> FALSE, should_compile |-> sc,
                   before |-> outFiles]
    /\ pc' = "generate"
    /\ UNCHANGED <<manifest, tmpDir, latexmk, outFiles, outDirs, cresult, otherThanCompile>>

\* self.generate(config, build_dir), line 292 / 356: it writes into the build
\* directory and either completes or raises (render, parse or I/O error).
Generate ==
    /\ pc = "generate"
    /\ \E ok \in BOOLEAN :
         IF ~ok THEN cresult' = Raises("GenerationError") /\ pc' = "exit"
         ELSE IF ~cargs.should_compile THEN cresult' = ReturnedNone /\ pc' = "exit"
         ELSE cresult' = cresult /\ pc' = "main"
    /\ UNCHANGED <<cargs, manifest, tmpDir, latexmk, outFiles, outDirs, otherThanCompile>>

\* Lines 294-296 / 359-362: the main file, or the no-main-file failure.
MainCheck ==
    /\ pc = "main"
    /\ IF get_main_latex_file(manifest, 1).found
       THEN cresult' = cresult /\ pc' = "run"
       ELSE /\ cresult' = Raises(IF cargs.fn = "compile_pdf" THEN "ValueError: no main file"
                                 ELSE "SystemExit: no main file")
            /\ pc' = "exit"
    /\ UNCHANGED <<cargs, manifest, tmpDir, latexmk, outFiles, outDirs, otherThanCompile>>

\* subprocess.run(["latexmk", "-pdf", main_file.tgt], cwd=...), lines 300-305 /
\* 366: the exit status is not looked at. The program may be missing; a
\* failed run may or may not leave a pdf behind.
RunLatexmk ==
    /\ pc = "run"
    /\ \/ /\ latexmk' = [latexmk EXCEPT !.calls = @ + 1]
          /\ cresult' = Raises("FileNotFoundError: latexmk")
          /\ pc' = "exit"
       \/ /\ \E st \in {0, 1}, built \in BOOLEAN :
               /\ (st = 0 => built)
               /\ latexmk' = [calls |-> latexmk.calls + 1, status |-> st, pdf |-> built]
          /\ cresult' = cresult
          /\ pc' = "locate"
    /\ UNCHANGED <<cargs, manifest, tmpDir, outFiles, outDirs, otherThanCompile>>

\* __compile_pdf, lines 307-318: find the pdf beside the main file and copy
\* it to the output path under a free name.
LocateArtifact ==
    /\ pc = "locate"
    /\ cargs.fn = "compile_pdf"
    /\ LET main_file == get_main_latex_file(manifest, 1).entry
           generated_file == PathWithSuffix(Join(cargs.build_dir, main_file.tgt), ".pdf")
           output_path == IF IsDir(cargs.output.path)
                          THEN PathWithSuffix(Join(cargs.output.path, main_file.tgt), ".pdf")
                          ELSE cargs.output.path
           output_file == OutputFile(outFiles, output_path, output_path, 1, cargs.overwrite)
       IN IF ~cargs.output.given
          THEN cresult' = Returned(generated_file) /\ outFiles' = outFiles
          ELSE IF ~latexmk.pdf
          THEN cresult' = Raises("FileNotFoundError: pdf") /\ outFiles' = outFiles
          ELSE IF output_file.dir \notin outDirs
          THEN cresult' = Raises("FileNotFoundError: output directory")
               /\ outFiles' = outFiles
          ELSE IF IsDir(output_file)
          THEN cresult' = Raises("IsADirectoryError") /\ outFiles' = outFiles
          ELSE /\ outFiles' = CopyTo(outFiles, Key(output_file), ArtifactContent)
               /\ cresult' = Returned(output_file)
    /\ pc' = "exit"
    /\ UNCHANGED <<cargs, manifest, tmpDir, latexmk, outDirs, otherThanCompile>>

\* generate_project, line 368: the pdf's path beside the main file.
ReturnPdfPath ==
    /\ pc = "locate"
    /\ cargs.fn = "generate_project"
    /\ cresult' = Returned(PathWithSuffix(
                      Join(cargs.build_dir, get_main_latex_file(manifest, 1).entry.tgt),
                      ".pdf"))
    /\ pc' = "exit"
    /\ UNCHANGED <<cargs, manifest, tmpDir, latexmk, outFiles, outDirs, otherThanCompile>>

\* The call is left, by return or by exception; compile_pdf leaves its
\* `with TemporaryDirectory()` block on the way.
ExitCall ==
    /\ pc = "exit"
    /\ tmpDir' = TemporaryDirectoryExit(tmpDir, cresult)
    /\ pc' = "done"
    /\ UNCHANGED <<cargs, manifest, latexmk, outFiles, outDirs, cresult, otherThanCompile>>

NextCompile ==
    \/ CallCompilePdf
    \/ CallGenerateProject
    \/ Generate
    \/ MainCheck
    \/ RunLatexmk
    \/ LocateArtifact
    \/ ReturnPdfPath
    \/ ExitCall

SpecCompile == InitCompile /\ [][NextCompile]_vars

(***************************************************************************)
(* Generation: specification                                               *)
(***************************************************************************)
InitGenerate ==
    /\ gpc = "idle"
    /\ genv \in GenEnvs
    /\ gmanifest \in GenManifests
    /\ gdir \in BOOLEAN
    /\ gfiles \in {[t \in T |-> OldFile] : T \in SUBSET GenTargets}
    /\ (~gdir => gfiles = EmptyMap)
    /\ gidx = 0
    /\ gcall = NoGenCall
    /\ gout = GenNone
    /\ IdleExcept("generate")

\* generate(config, target_dir), line 211: the defaults are loaded first.
GenLoadDefaults ==
    /\ gpc = "idle"
    /\ gcall' = [called |-> TRUE, before |-> gfiles]
    /\ IF load_default_conf(genv)
       THEN gpc' = "mkdir" /\ gout' = gout
       ELSE gpc' = "done" /\ gout' = GenRaised("ConfigParseError", 0)
    /\ UNCHANGED <<genv, gmanifest, gfiles, gdir, gidx, otherThanGenerate>>

\* Lines 214-216: the target directory is made when it is not there.
GenMkdir ==
    /\ gpc = "mkdir"
    /\ gdir' = TRUE
    /\ gpc' = "manifest"
    /\ UNCHANGED <<genv, gmanifest, gfiles, gidx, gcall, gout, otherThanGenerate>>

\* Line 218: self.get_generated_files(config), evaluated before the loop runs.
GenManifest ==
    /\ gpc = "manifest"
    /\ IF get_generated_files(genv)
       THEN gpc' = "entries" /\ gidx' = 1 /\ gout' = gout
       ELSE gpc' = "done" /\ gidx' = gidx /\ gout' = GenRaised("ManifestRenderError", 0)
    /\ UNCHANGED <<genv, gmanifest, gfiles, gdir, gcall, otherThanGenerate>>

\* Lines 219-230: one turn of the loop, on entry gidx.
GenEntry ==
    /\ gpc = "entries"
    /\ gidx <= Len(gmanifest)
    /\ gfiles' = WriteEntry(gfiles, gmanifest[gidx], gidx)
    /\ IF gmanifest[gidx].fate = "ok"
       THEN gidx' = gidx + 1 /\ gpc' = gpc /\ gout' = gout
       ELSE gidx' = gidx /\ gpc' = "done"
            /\ gout' = GenRaised(gmanifest[gidx].fate, gidx)
    /\ UNCHANGED <<genv, gmanifest, gdir, gcall, otherThanGenerate>>

\* The loop is over: generate returns.
GenReturn ==
    /\ gpc = "entries"
    /\ gidx > Len(gmanifest)
    /\ gpc' = "done"
    /\ gout' = GenReturned
    /\ UNCHANGED <<genv, gmanifest, gfiles, gdir, gidx, gcall, otherThanGenerate>>

NextGenerate ==
    \/ GenLoadDefaults
    \/ GenMkdir
    \/ GenManifest
    \/ GenEntry
    \/ GenReturn

SpecGenerate == InitGenerate /\ [][NextGenerate]_vars

(***************************************************************************)
(* Claims about discovery                                                  *)
(***************************************************************************)
Min(S) == CHOOSE x \in S : \A y \in S : x <= y

\* The validity invariant of the data model: a directory holding both
\* default-conf.yaml and contents.yaml.
HoldsBothMarkers(dir, name) ==
    /\ tree[dir].is_dir
    /\ tree[dir].sub[name].is_dir
    /\ tree[dir].sub[name].has_conf
    /\ tree[dir].sub[name].has_contents

ValidPositions(tp, name) == {i \in 1..Len(tp) : HoldsBothMarkers(tp[i], name)}

\* C1: find is first-match. When the given template search path has one or
\* more entries holding a valid template directory of the requested name,
\* find returns the template rooted under the earliest such entry; earlier
\* directories of that name that are not valid templates are skipped.
C1_FindFirstMatch ==
    (fcall.op = "find" /\ fcall.tp.given /\ ValidPositions(fcall.tp.v, fcall.name) # {})
    => /\ fresult.kind = "template"
       /\ fresult.name = fcall.name
       /\ fresult.dir = fcall.tp.v[Min(ValidPositions(fcall.tp.v, fcall.name))]

\* Two valid directories of the name on the path, behind an earlier directory
\* of that name which is not a valid template; find returned the first valid one.
C1_Witness ==
    /\ fcall.op = "find" /\ fcall.tp.given
    /\ Cardinality(ValidPositions(fcall.tp.v, fcall.name)) >= 2
    /\ 1 \notin ValidPositions(fcall.tp.v, fcall.name)
    /\ tree[fcall.tp.v[1]].sub[fcall.name].is_dir
    /\ fresult.kind = "template"
    /\ fresult.dir = fcall.tp.v[2]
    /\ fresult.dir # fcall.tp.v[1]

\* C2: whenever no entry of the given template search path (the empty list
\* included) holds a valid template directory of the requested name, find
\* fails with the not-found error carrying that name, whatever the library
\* path argument is, omitted or not.
C2_NotFoundOnGivenPath ==
    (fcall.op = "find" /\ fcall.tp.given /\ ValidPositions(fcall.tp.v, fcall.name) = {})
    => (fresult.kind = "not_found" /\ fresult.name = fcall.name)

ValidNames(dir) == {n \in TemplateNames : HoldsBothMarkers(dir, n)}

RECURSIVE ValidBefore(_, _)
ValidBefore(tp, i) ==
    IF i <= 1 THEN 0 ELSE ValidBefore(tp, i - 1) + Cardinality(ValidNames(tp[i - 1]))

\* C3: find_all yields exactly one name per valid template directory under
\* the path's entries, duplicates across entries included, and the names of
\* an earlier path entry come before those of a later one; entries that do
\* not exist contribute nothing.
C3_FindAllEveryOccurrence ==
    fcall.op = "find_all"
    => LET tp == fcall.tp.v
           ys == fresult.names
       IN /\ fresult.kind = "names"
          /\ Len(ys) = ValidBefore(tp, Len(tp) + 1)
          /\ \A i \in 1..Len(tp) :
                {ys[k] : k \in (ValidBefore(tp, i) + 1)..ValidBefore(tp, i + 1)}
                    = ValidNames(tp[i])

\* A path with a missing entry and the same valid name under two different
\* entries: the name is listed twice.
C3_Witness ==
    /\ fcall.op = "find_all"
    /\ \E i, j \in 1..Len(fcall.tp.v) :
          /\ i < j
          /\ fcall.tp.v[i] # fcall.tp.v[j]
          /\ ValidNames(fcall.tp.v[i]) \cap ValidNames(fcall.tp.v[j]) # {}
    /\ \E i \in 1..Len(fcall.tp.v) : ~tree[fcall.tp.v[i]].is_dir
    /\ Len(fresult.names) > Cardinality(Range(fresult.names))

(***************************************************************************)
(* Claims about the configuration merge                                    *)
(***************************************************************************)

\* C4: the merge is a shallow override. The merged mapping has the keys of
\* the default and of the user mapping; at every key of the user mapping it
\* holds the user's value whole, nested mappings included, and at every
\* other key the default's value.
C4_MergeShallowOverride ==
    merged.done
    => /\ DOMAIN merged.v = DOMAIN defaultConf \cup DOMAIN userConf
       /\ \A k \in DOMAIN userConf : merged.v[k] = userConf[k]
       /\ \A k \in DOMAIN defaultConf \ DOMAIN userConf : merged.v[k] = defaultConf[k]

\* The spec's example: default {a: 1, b: {x: 1}}, user {b: {y: 2}}, merged b = {y: 2}.
C4_Witness ==
    /\ merged.done
    /\ DOMAIN defaultConf = {"a", "b"} /\ DOMAIN userConf = {"b"}
    /\ defaultConf["a"] = Scalar(1)
    /\ defaultConf["b"] = Nested([k \in {"x"} |-> 1])
    /\ userConf["b"] = Nested([k \in {"y"} |-> 2])
    /\ merged.v["b"] = Nested([k \in {"y"} |-> 2])
    /\ merged.v["a"] = Scalar(1)

(***************************************************************************)
(* Claims about manifest entries                                           *)
(***************************************************************************)

\* C5: a manifest entry given as a bare path string p, whatever characters
\* it contains, is normalised without error to src = p, tgt = p,
\* is_raw = false, is_main = false.
C5_ShorthandEquivalence ==
    (entry.is_str /\ parsed # NotParsed)
    => parsed = GeneratedFile(PathOf(entry.str), PathOf(entry.str), FALSE, FALSE)

(***************************************************************************)
(* Claims about generate_config                                            *)
(***************************************************************************)
\* The k-th name of the sequence f, f.1, f.2, ...
SeqName(f, k) == IF k = 0 THEN NameStr(f) ELSE NameStr(f) \o "." \o ToString(k)

FirstFree(f, files) ==
    Min({k \in 0..(MaxTaken + 2) : SeqName(f, k) \notin DOMAIN files})

\* C9: generate_config(template, f) overwrites no existing file: it copies
\* the default configuration to the first name of f, f.1, f.2, ... that does
\* not exist, and every file that existed before keeps its content.
C9_GenconfNonClobbering ==
    gcCall.called
    => /\ gcCall.wrote = SeqName(gcCall.f, FirstFree(gcCall.f, gcCall.before))
       /\ gcCall.wrote \notin DOMAIN gcCall.before
       /\ DOMAIN cwdFiles = DOMAIN gcCall.before \cup {gcCall.wrote}
       /\ cwdFiles[gcCall.wrote] = DefaultConfContent
       /\ \A n \in DOMAIN gcCall.before : cwdFiles[n] = gcCall.before[n]

\* The spec's example: config.yaml and config.yaml.1 exist, config.yaml.2 is written.
C9_Witness ==
    /\ gcCall.called
    /\ gcCall.f = FileName("config", ".yaml")
    /\ {"config.yaml", "config.yaml.1"} \subseteq DOMAIN gcCall.before
    /\ gcCall.wrote = "config.yaml.2"
    /\ cwdFiles["config.yaml"] = OldContent
    /\ cwdFiles["config.yaml.1"] = OldContent
    /\ cwdFiles["config.yaml.2"] = DefaultConfContent

(***************************************************************************)
(* Claims about compilation                                                *)
(***************************************************************************)
NoEntryMarkedMain == \A i \in 1..Len(manifest) : ~manifest[i].is_main

CompileRequested ==
    cargs.fn = "compile_pdf" \/ (cargs.fn = "generate_project" /\ cargs.should_compile)

NoMainFileError == {"ValueError: no main file", "SystemExit: no main file"}

\* C6: when the rendered manifest has no entry marked main, the external
\* compiler is never invoked, and a compilation whose generation step
\* completed ends with the no-main-file failure: the run never gets to the
\* subprocess call or beyond it.
C6_NoMainBeforeSubprocess ==
    (NoEntryMarkedMain /\ CompileRequested)
    => /\ latexmk.calls = 0
       /\ pc \notin {"run", "locate"}
       /\ (pc \in {"exit", "done"}
             => /\ cresult.kind = "raised"
                /\ cresult.error \in NoMainFileError \cup {"GenerationError"})

\* A compile_pdf run over a non-empty manifest without a main entry that
\* ended with the no-main-file failure, the compiler never invoked.
C6_Witness ==
    /\ pc = "done"
    /\ cargs.fn = "compile_pdf"
    /\ manifest # <<>>
    /\ NoEntryMarkedMain
    /\ cresult = Raises("ValueError: no main file")
    /\ latexmk.calls = 0

\* C7: when the external compiler exits with a failure status, the call ends
\* with a build failure: no artifact is copied and no artifact path is
\* returned.
C7_CompilerFailurePropagates ==
    (pc = "done" /\ latexmk.calls > 0 /\ latexmk.status # 0)
    => /\ cresult.kind = "raised"
       /\ outFiles = cargs.before

Unchanged(k) == k \in DOMAIN outFiles /\ outFiles[k] = cargs.before[k]

\* The least N >= 1 whose "<stem> (N).pdf" beside p is free.
FirstFreeN(p) ==
    Min({n \in 1..(MaxTaken + 2) : Key(Suffixed(p, n)) \notin DOMAIN cargs.before})

\* Where the claim puts the artifact for destination p.
ExpectedOutput(p) ==
    IF cargs.overwrite \/ Key(p) \notin DOMAIN cargs.before THEN p
    ELSE Suffixed(p, FirstFreeN(p))

C10_TempDirRemoved ==
    (pc = "done" /\ cargs.fn = "compile_pdf" /\ ~cargs.build_dir_given)
    => tmpDir = "removed"

\* The call made its temporary directory, failed while copying the artifact,
\* and the directory is gone.
C10_Witness ==
    /\ pc = "done"
    /\ cargs.fn = "compile_pdf" /\ ~cargs.build_dir_given
    /\ cresult.kind = "raised"
    /\ cresult.error = "FileNotFoundError: pdf"
    /\ tmpDir = "removed"

\* The first entry of the manifest marked main.
MainEntry == manifest[Min({i \in 1..Len(manifest) : manifest[i].is_main})]

\* C11: when the output path is an existing directory, the artifact is placed
\* directly inside it under the main file's base name with the .pdf
\* extension, whatever directory of the project the main file lies in.
C11_ArtifactUnderBaseName ==
    (/\ pc = "done"
     /\ cargs.fn = "compile_pdf"
     /\ cargs.output.given /\ cargs.output.path = OutDir
     /\ latexmk.calls > 0 /\ latexmk.pdf)
    => /\ cresult.kind = "returned"
       /\ cresult.path = ExpectedOutput(FilePath(<<"out">>, MainEntry.tgt.stem, ".pdf"))
       /\ outFiles[Key(cresult.path)] = ArtifactContent

(***************************************************************************)
(* Claims about generation                                                 *)
(***************************************************************************)
\* generate failed while processing entry i.
FailedAt(i) == gpc = "done" /\ gout.kind = "raised" /\ gout.at = i /\ i >= 1

\* Target t holds the full content written by one of the entries 1..i-1.
WrittenInFull(t, i) ==
    t \in DOMAIN gfiles /\ gfiles[t].full /\ gfiles[t].writer \in 1..(i - 1)

\* Target t is as it was before the call: still absent, or there and unchanged.
Untouched(t) ==
    IF t \in DOMAIN gcall.before
    THEN t \in DOMAIN gfiles /\ gfiles[t] = gcall.before[t]
    ELSE t \notin DOMAIN gfiles

\* Entry i failed after its target had been opened for writing.
FailedInTarget(i) == gmanifest[i].fate \in {"io_error", "render_error"}

\* C12, as stated: when processing entry i fails, the targets of entries
\* 1..i-1 remain written with their full content, and no target of entries
\* i+1..n is created or modified by the run.
C12_PartialFailureAsStated ==
    \A i \in 1..Len(gmanifest) :
        FailedAt(i)
        => /\ \A j \in 1..(i - 1) : WrittenInFull(gmanifest[j].tgt, i)
           /\ \A k \in (i + 1)..Len(gmanifest) : Untouched(gmanifest[k].tgt)

\* C12, amended: entries are processed in manifest order with no rollback.
\* When processing entry i fails, the failure reaches the caller; the target
\* of every entry 1..i-1 remains written with full content, unless entry i
\* names the same target and failed while writing it; and no target
\* of entries i+1..n is created or modified by the run, unless an entry
\* 1..i-1 names it too, or entry i names it and failed while writing it.
C12_PartialFailureNoRollback ==
    /\ (gpc = "done" /\ gout.kind = "raised" /\ gout.at >= 1)
         => /\ gout.at = gidx
            /\ gmanifest[gidx].fate # "ok"
            /\ \A j \in 1..(gidx - 1) : gmanifest[j].fate = "ok"
    /\ \A i \in 1..Len(gmanifest) :
        FailedAt(i)
        => /\ \A j \in 1..(i - 1) :
                (gmanifest[j].tgt = gmanifest[i].tgt /\ FailedInTarget(i))
                \/ WrittenInFull(gmanifest[j].tgt, i)
           /\ \A k \in (i + 1)..Len(gmanifest) :
                \/ \E j \in 1..(i - 1) : gmanifest[j].tgt = gmanifest[k].tgt
                \/ (gmanifest[k].tgt = gmanifest[i].tgt /\ FailedInTarget(i))
                \/ Untouched(gmanifest[k].tgt)

\* The second of three entries failed: the first entry's target, which was
\* there before, now holds the first entry's full content, and the third
\* entry's target, absent before, has not been created.
C12_Witness ==
    /\ Len(gmanifest) = 3
    /\ FailedAt(2)
    /\ gmanifest[1].tgt # gmanifest[2].tgt
    /\ gmanifest[3].tgt # gmanifest[1].tgt
    /\ gmanifest[1].tgt \in DOMAIN gcall.before
    /\ gfiles[gmanifest[1].tgt] = FullBy(1)
    /\ gmanifest[3].tgt \notin DOMAIN gfiles

\* C13: when the default configuration does not load, or the manifest does
\* not render and parse, generate ends with that failure before its loop
\* over the entries starts, and every file of the target directory is as it
\* was before the call.
C13_AbortBeforeAnyWrite ==
    (gcall.called /\ (~genv.defaults_ok \/ ~genv.manifest_ok))
    => /\ gfiles = gcall.before
       /\ gpc # "entries"
       /\ (gpc = "done" => (gout.kind = "raised" /\ gout.at = 0))

\* The manifest failed to render over a target directory that holds a file
\* the manifest would have written: the directory exists, the file is as it was.
C13_Witness ==
    /\ gpc = "done"
    /\ gout = GenRaised("ManifestRenderError", 0)
    /\ gdir
    /\ gmanifest # <<>>
    /\ gmanifest[1].fate = "ok"
    /\ gmanifest[1].tgt \in DOMAIN gcall.before
    /\ gfiles[gmanifest[1].tgt] = OldFile

====
